---- MODULE Spec2Model ----
(***************************************************************************)
(* RadioFluxRSS: the playlist converter (m3u_to_rss.py, class M3UToRSS)    *)
(* and the directory scraper (RadioFluxRSS.py, class FluxRadiosScraper).   *)
(*                                                                         *)
(* Text is modelled as a sequence of tokens; a token is a short string     *)
(* that the code never looks inside ("FR", "http://", "kbps", one digit).  *)
(* The string operations of the code (strip, startswith, split, find,      *)
(* regular-expression search) are computed on these sequences.             *)
(***************************************************************************)
EXTENDS Integers, Sequences, FiniteSets, TLC

VARIABLES
    pc,               \* position of the running pipeline
    lines,            \* parse_m3u: the lines read from the playlist file
    li,               \* parse_m3u: index of the next line of the loop
    current_station,  \* parse_m3u: <<>> for {}, <<record>> for an open accumulator
    stations,         \* M3UToRSS.stations
    cur_line,         \* history: index of the line that opened the accumulator
    origin,           \* history: per station, <<metadata line index, URL line index>>
    items,            \* create_single_rss_feed: the <item> elements of the channel
    fi,               \* create_single_rss_feed: index of the next station of the loop
    clock,            \* the wall clock datetime.now() reads, in ticks
    anchors,          \* extract_radio_links: the hrefs of the listing page, in order
    radio_links,      \* scrape_all_radios: the links extract_radio_links returned
    ri,               \* scrape_all_radios: index of the next link of the loop
    radios_data,      \* FluxRadiosScraper.radios_data
    responses,        \* history: the page each processed link answered with
    args,             \* a function call under test: its arguments
    ret               \* a function call under test: <<>> before, <<result>> after

vars == <<pc, lines, li, current_station, stations, cur_line, origin, items, fi,
          clock, anchors, radio_links, ri, radios_data, responses, args, ret>>

playlistVars == <<lines, li, current_station, stations, cur_line, origin, items, fi, clock>>
scraperVars == <<anchors, radio_links, ri, radios_data, responses>>
callVars == <<args, ret>>

(***************************************************************************)
(* Bounds of the model.                                                    *)
(***************************************************************************)
MaxLines == 4
MaxClock == 2
MaxAnchors == 3
MaxStreams == 3

(***************************************************************************)
(* String operations on token sequences.                                   *)
(***************************************************************************)
Whitespace == {" ", "\n"}

RECURSIVE LStrip(_)
LStrip(s) == IF s # <<>> /\ Head(s) \in Whitespace THEN LStrip(Tail(s)) ELSE s

RECURSIVE RStripSet(_, _)
RStripSet(s, chars) ==
    IF s # <<>> /\ s[Len(s)] \in chars
    THEN RStripSet(SubSeq(s, 1, Len(s) - 1), chars)
    ELSE s

\* str.strip()
Strip(s) == RStripSet(LStrip(s), Whitespace)

\* str.startswith(p)
StartsWith(s, p) == Len(s) >= Len(p) /\ SubSeq(s, 1, Len(p)) = p

\* p in s
Contains(s, p) == \E i \in 1..(Len(s) - Len(p) + 1) : SubSeq(s, i, i + Len(p) - 1) = p

\* str.lower(), token by token
LowerTok(t) ==
    CASE t = "MP3" -> "mp3"
      [] t = ".MP3" -> ".mp3"
      [] t = "AAC" -> "aac"
      [] t = ".AAC" -> ".aac"
      [] t = "K" -> "k"
      [] t = "BPS" -> "bps"
      [] t = "Facebook" -> "facebook"
      [] OTHER -> t

Lower(s) == [i \in 1..Len(s) |-> LowerTok(s[i])]

\* str.split(sep, 1) for a one-token separator
Split1(s, sep) ==
    IF \E i \in 1..Len(s) : s[i] = sep
    THEN LET i == CHOOSE k \in 1..Len(s) : s[k] = sep /\ \A j \in 1..(k - 1) : s[j] # sep
         IN <<SubSeq(s, 1, i - 1), SubSeq(s, i + 1, Len(s))>>
    ELSE <<s>>

Quote == "\""

\* re.search(key + '"([^"]*)"', s): <<>> for None, <<group(1)>> for a match.
\* The leftmost position where key and an opening quote are followed by a
\* closing quote; the group runs to the first closing quote.
AttrMatchAt(s, key, i) ==
    /\ i + 1 <= Len(s)
    /\ s[i] = key
    /\ s[i + 1] = Quote
    /\ \E j \in (i + 2)..Len(s) : s[j] = Quote

ReSearchAttr(key, s) ==
    IF \E i \in 1..Len(s) : AttrMatchAt(s, key, i)
    THEN LET i == CHOOSE k \in 1..Len(s) :
                     AttrMatchAt(s, key, k) /\ \A h \in 1..(k - 1) : ~AttrMatchAt(s, key, h)
             j == CHOOSE k \in (i + 2)..Len(s) :
                     s[k] = Quote /\ \A h \in (i + 2)..(k - 1) : s[h] # Quote
         IN <<SubSeq(s, i + 2, j - 1)>>
    ELSE <<>>

(***************************************************************************)
(* M3UToRSS.__init__                                                       *)
(***************************************************************************)
default_logo == <<"https://raw.githubusercontent.com/AntennaPod/ic_launcher.png">>

\* the keys of country_flags, in insertion order
country_codes == <<"FR", "BE", "CH", "LU", "LY">>

country_flags(code) ==
    CASE code = "FR" -> <<"https://flagcdn.com/w320/fr.png">>
      [] code = "BE" -> <<"https://flagcdn.com/w320/be.png">>
      [] code = "CH" -> <<"https://flagcdn.com/w320/ch.png">>
      [] code = "LU" -> <<"https://flagcdn.com/w320/lu.png">>
      [] code = "LY" -> <<"https://flagcdn.com/w320/lu.png">>

InCountryFlags(s) == \E k \in 1..Len(country_codes) : s = <<country_codes[k]>>

(***************************************************************************)
(* M3UToRSS.get_station_logo.  An optional argument is <<>> for None and   *)
(* <<s>> for the string s.                                                 *)
(***************************************************************************)
NameHasCode(name, k) == Contains(name, <<"|", " ", country_codes[k]>>)

\* get_station_logo with the country looked up before the station's own logo
get_station_logo_country_first(tvg_logo, tvg_country, name) ==
    IF /\ tvg_country # <<>>
       /\ tvg_country[1] # <<>>
       /\ InCountryFlags(Strip(tvg_country[1]))
    THEN country_flags(Strip(tvg_country[1])[1])
    ELSE IF tvg_logo # <<>> /\ tvg_logo[1] # <<>> /\ Strip(tvg_logo[1]) # <<>>
    THEN tvg_logo[1]
    ELSE default_logo

get_station_logo(tvg_logo, tvg_country, name) ==
    IF tvg_logo # <<>> /\ tvg_logo[1] # <<>> /\ Strip(tvg_logo[1]) # <<>>
    THEN tvg_logo[1]
    ELSE IF /\ tvg_country # <<>>
            /\ tvg_country[1] # <<>>
            /\ InCountryFlags(Strip(tvg_country[1]))
    THEN country_flags(Strip(tvg_country[1])[1])
    ELSE IF name # <<>> /\ \E k \in 1..Len(country_codes) : NameHasCode(name, k)
    THEN LET k == CHOOSE c \in 1..Len(country_codes) :
                     NameHasCode(name, c) /\ \A h \in 1..(c - 1) : ~NameHasCode(name, h)
         IN country_flags(country_codes[k])
    ELSE default_logo

(***************************************************************************)
(* The playlist files the model reads: every sequence of at most MaxLines  *)
(* lines drawn from PlaylistLines.                                         *)
(***************************************************************************)
ExtInf == <<"#", "EXTINF:">>

PlaylistLines ==
    { \* metadata, no attributes
      ExtInf \o <<"-1", ",", "A", "\n">>,
      \* metadata with an explicit logo and a name carrying a country marker
      ExtInf \o <<"-1", " ", "tvg-name=", Quote, "b", Quote, " ", "tvg-logo=", Quote,
                  "logo.png", Quote, ",", " ", "B", " ", "|", " ", "BE", "\n">>,
      \* metadata whose logo attribute is whitespace, country known
      ExtInf \o <<"-1", " ", "tvg-logo=", Quote, " ", Quote, " ", "tvg-country=", Quote,
                  "FR", Quote, ",", "C", "\n">>,
      \* metadata with an unknown country, a group and a country marker in the name
      ExtInf \o <<"-1", " ", "tvg-country=", Quote, "XX", Quote, " ", "group-title=",
                  Quote, "News", Quote, ",", "D", " ", "|", " ", "CH", "\n">>,
      \* metadata without a comma
      ExtInf \o <<"-1", " ", "tvg-logo=", Quote, "logo.png", Quote, "\n">>,
      \* indented metadata with an empty name
      <<" ">> \o ExtInf \o <<"-1", ",", "\n">>,
      \* URL lines
      <<"http://", "u1", "\n">>,
      <<" ", "http://", "u2", " ", "\n">>,
      \* a blank line and a comment line
      <<" ", "\n">>,
      <<"#", "comment", "\n">> }

RECURSIVE SeqsUpTo(_, _)
SeqsUpTo(S, n) ==
    IF n = 0 THEN {<<>>}
    ELSE LET shorter == SeqsUpTo(S, n - 1)
         IN shorter \cup {Append(q, x) : q \in {r \in shorter : Len(r) = n - 1}, x \in S}

(***************************************************************************)
(* M3UToRSS.parse_m3u: one iteration of the loop over the lines.           *)
(***************************************************************************)
\* the station dictionary built from a metadata line that carries a comma
StationFromInfo(info) ==
    LET attrs == info[1]
        name == Strip(info[2])
        tvg_name == ReSearchAttr("tvg-name=", attrs)
        tvg_logo == ReSearchAttr("tvg-logo=", attrs)
        tvg_country == ReSearchAttr("tvg-country=", attrs)
        group == ReSearchAttr("group-title=", attrs)
    IN [name |-> name,
        tvg_name |-> IF tvg_name # <<>> THEN tvg_name[1] ELSE <<>>,
        logo |-> get_station_logo(tvg_logo, tvg_country, name),
        group |-> IF group # <<>> THEN group[1] ELSE <<>>,
        url |-> <<>>]

ParseLine ==
    /\ pc = "parse"
    /\ li <= Len(lines)
    /\ LET line == Strip(lines[li])
       IN IF StartsWith(line, ExtInf)
          THEN LET info == Split1(line, ",")
               IN IF Len(info) > 1
                  THEN /\ current_station' = <<StationFromInfo(info)>>
                       /\ cur_line' = li
                       /\ UNCHANGED <<stations, origin>>
                  ELSE UNCHANGED <<current_station, cur_line, stations, origin>>
          ELSE IF line # <<>> /\ ~StartsWith(line, <<"#">>) /\ current_station # <<>>
          THEN /\ stations' = Append(stations, [current_station[1] EXCEPT !.url = line])
               /\ origin' = Append(origin, <<cur_line, li>>)
               /\ current_station' = <<>>
               /\ cur_line' = 0
          ELSE UNCHANGED <<current_station, cur_line, stations, origin>>
    /\ li' = li + 1
    /\ UNCHANGED <<pc, lines, items, fi, clock>>
    /\ UNCHANGED scraperVars
    /\ UNCHANGED callVars

(***************************************************************************)
(* M3UToRSS.create_single_rss_feed                                         *)
(***************************************************************************)
TicksPerSecond == 2

\* strftime('%a, %d %b %Y %H:%M:%S +0000'): the time cut to whole seconds
Strftime(t) == t \div TicksPerSecond

channel_header ==
    [title |-> <<"French Radio Stations">>,
     description |-> <<"Collection of French radio stations for continuous streaming">>,
     link |-> <<"https://jbesclapez.github.io/RadioFluxRSS/">>,
     language |-> <<"fr">>,
     image |-> [url |-> country_flags("FR"),
                title |-> <<"French Radio Stations">>,
                link |-> <<"https://jbesclapez.github.io/RadioFluxRSS/">>]]

\* the <item> element of one station, built at time now
FeedItemOf(station, now) ==
    [title |-> station.name,
     description |-> <<"Live stream for ">> \o station.name,
     link |-> station.url,
     guid |-> station.url,
     pubDate |-> Strftime(now),
     duration |-> <<"00:00:00">>,
     explicit |-> <<"no">>,
     image |-> station.logo,
     enclosure |-> [url |-> station.url, type |-> <<"audio/mpeg">>, length |-> <<"0">>]]

\* main: parse_m3u has returned, generate_feed calls create_single_rss_feed,
\* which builds the channel header
FeedBegin ==
    /\ pc = "parse"
    /\ li > Len(lines)
    /\ pc' = "feed"
    /\ items' = <<>>
    /\ fi' = 1
    /\ UNCHANGED <<lines, li, current_station, stations, cur_line, origin, clock>>
    /\ UNCHANGED scraperVars
    /\ UNCHANGED callVars

\* the loop skipping a station whose URL an earlier entry already carries
FeedItemDedup ==
    /\ pc = "feed"
    /\ fi <= Len(stations)
    /\ items' = IF \E k \in 1..Len(items) : items[k].link = stations[fi].url
                THEN items
                ELSE Append(items, FeedItemOf(stations[fi], clock))
    /\ fi' = fi + 1
    /\ UNCHANGED <<pc, lines, li, current_station, stations, cur_line, origin, clock>>
    /\ UNCHANGED scraperVars
    /\ UNCHANGED callVars

\* one iteration of the loop over self.stations
FeedItem ==
    /\ pc = "feed"
    /\ fi <= Len(stations)
    /\ items' = Append(items, FeedItemOf(stations[fi], clock))
    /\ fi' = fi + 1
    /\ UNCHANGED <<pc, lines, li, current_station, stations, cur_line, origin, clock>>
    /\ UNCHANGED scraperVars
    /\ UNCHANGED callVars

\* the loop is over: the document is serialized and returned
FeedEnd ==
    /\ pc = "feed"
    /\ fi > Len(stations)
    /\ pc' = "done"
    /\ UNCHANGED playlistVars
    /\ UNCHANGED scraperVars
    /\ UNCHANGED callVars

\* time passes while the feed is being built
Tick ==
    /\ pc = "feed"
    /\ clock < MaxClock
    /\ clock' = clock + 1
    /\ UNCHANGED <<pc, lines, li, current_station, stations, cur_line, origin, items, fi>>
    /\ UNCHANGED scraperVars
    /\ UNCHANGED callVars

\* the variables of the pipelines that are not running
ScraperIdle ==
    /\ anchors = <<>>
    /\ radio_links = <<>>
    /\ ri = 0
    /\ radios_data = <<>>
    /\ responses = <<>>

PlaylistIdle ==
    /\ lines = <<>>
    /\ li = 0
    /\ current_station = <<>>
    /\ stations = <<>>
    /\ cur_line = 0
    /\ origin = <<>>
    /\ items = <<>>
    /\ fi = 0
    /\ clock = 0

CallIdle ==
    /\ args = <<>>
    /\ ret = <<>>

InitPlaylist ==
    /\ pc = "parse"
    /\ lines \in SeqsUpTo(PlaylistLines, MaxLines)
    /\ li = 1
    /\ current_station = <<>>
    /\ stations = <<>>
    /\ cur_line = 0
    /\ origin = <<>>
    /\ items = <<>>
    /\ fi = 0
    /\ clock = 0
    /\ ScraperIdle
    /\ CallIdle

NextPlaylist == ParseLine \/ FeedBegin \/ FeedItem \/ FeedEnd \/ Tick

SpecPlaylist == InitPlaylist /\ [][NextPlaylist]_vars

(***************************************************************************)
(* Claims about the playlist pipeline.                                     *)
(***************************************************************************)
\* the line kinds of the extended-M3U grammar
IsMetadataLine(l) == StartsWith(Strip(l), ExtInf)
IsUrlLine(l) == Strip(l) # <<>> /\ ~StartsWith(Strip(l), <<"#">>)
HasComma(l) == \E i \in 1..Len(l) : l[i] = ","

\* m is a metadata line and u the first URL line after it, with no other
\* metadata line in between
IsPair(ls, m, u) ==
    /\ m < u
    /\ IsMetadataLine(ls[m])
    /\ IsUrlLine(ls[u])
    /\ \A j \in (m + 1)..(u - 1) : ~IsMetadataLine(ls[j]) /\ ~IsUrlLine(ls[j])

PairCount(ls) ==
    Cardinality({m \in 1..Len(ls) : \E u \in 1..Len(ls) : IsPair(ls, m, u)})

ParseDone == pc \in {"parse", "feed", "done"} /\ li > Len(lines)

\* C1: when parse_m3u has read every line, the number of stations equals the
\* number of metadata-line/URL-line pairs of the playlist, metadata lines
\* without a comma included.
C1_CountEqualsPairs == ParseDone => Len(stations) = PairCount(lines)

\* C2: every station comes from the metadata line that most closely precedes
\* its URL line, with only blank or comment lines between the two.
C2_StationFromNearestMetadata ==
    \A k \in 1..Len(origin) : IsPair(lines, origin[k][1], origin[k][2])

\* C8: the finished feed holds one entry per station, in station order,
\* duplicates kept, and each entry's link, guid and enclosure URL are the
\* station's stream URL; no station, no entry.
C8_OneEntryPerStation ==
    pc = "done" =>
        /\ Len(items) = Len(stations)
        /\ \A k \in 1..Len(stations) :
              /\ items[k].title = stations[k].name
              /\ items[k].link = stations[k].url
              /\ items[k].guid = stations[k].url
              /\ items[k].enclosure.url = stations[k].url
        /\ (stations = <<>> => items = <<>>)

\* C8 witness: a finished feed of two stations that share a stream URL
C8_Witness ==
    /\ pc = "done"
    /\ Len(stations) = 2
    /\ stations[1].url = stations[2].url
    /\ stations[1].name # stations[2].name
    /\ Len(items) = 2

\* C9: within one build of the feed every entry carries the same pubDate.
C9_OneTimestampPerBuild ==
    pc \in {"feed", "done"} =>
        \A j \in 1..Len(items) : \A k \in 1..Len(items) : items[j].pubDate = items[k].pubDate

(***************************************************************************)
(* get_station_logo on its own: every argument triple within the bounds.   *)
(***************************************************************************)
MaxAttrLen == 2
MaxNameLen == 3

\* None, or a string
Optional(S) == {<<>>} \cup {<<x>> : x \in S}

LogoArgs ==
    Optional(SeqsUpTo({" ", "x"}, MaxAttrLen))
        \X Optional(SeqsUpTo({" ", "FR", "XX"}, MaxAttrLen))
        \X SeqsUpTo({"R", "|", " ", "BE"}, MaxNameLen)

InitLogo ==
    /\ pc = "call"
    /\ args \in LogoArgs
    /\ ret = <<>>
    /\ PlaylistIdle
    /\ ScraperIdle

CallLogo ==
    /\ pc = "call"
    /\ ret' = <<get_station_logo(args[1], args[2], args[3])>>
    /\ pc' = "returned"
    /\ UNCHANGED args
    /\ UNCHANGED playlistVars
    /\ UNCHANGED scraperVars

SpecLogo == InitLogo /\ [][CallLogo]_vars

\* C3 as stated: the result is never empty, and a non-empty logo attribute,
\* whitespace or not, is returned as it is.
C3_LogoTotalAndExplicitWins ==
    pc = "returned" =>
        /\ ret[1] # <<>>
        /\ (args[1] # <<>> /\ args[1][1] # <<>> => ret[1] = args[1][1])

\* C3 amended: the result is never empty, and a logo attribute that holds
\* something other than whitespace is returned as it is, whatever the
\* country and the name are.
C3_LogoTotalAndVisibleLogoWins ==
    pc = "returned" =>
        /\ ret[1] # <<>>
        /\ (args[1] # <<>> /\ Strip(args[1][1]) # <<>> => ret[1] = args[1][1])

\* C3 witness: a logo with surrounding whitespace beats a known country and a
\* country marker in the name
C3_Witness ==
    /\ pc = "returned"
    /\ args[1] = <<<<" ", "x">>>>
    /\ args[2] = <<<<"FR">>>>
    /\ args[3] = <<"|", " ", "BE">>
    /\ ret = <<<<" ", "x">>>>

(***************************************************************************)
(* FluxRadiosScraper.parse_stream_quality                                  *)
(***************************************************************************)
Digits == {"0", "1", "2", "3", "4", "5", "6", "7", "8", "9"}

DigitVal(t) ==
    CASE t = "0" -> 0 [] t = "1" -> 1 [] t = "2" -> 2 [] t = "3" -> 3 [] t = "4" -> 4
      [] t = "5" -> 5 [] t = "6" -> 6 [] t = "7" -> 7 [] t = "8" -> 8 [] t = "9" -> 9

\* int(): the value of a run of digits
RECURSIVE IntOf(_)
IntOf(ds) ==
    IF ds = <<>> THEN 0
    ELSE 10 * IntOf(SubSeq(ds, 1, Len(ds) - 1)) + DigitVal(ds[Len(ds)])

\* the last index of the run of tokens of S that starts at i (i - 1 if none)
RECURSIVE RunEnd(_, _, _)
RunEnd(s, i, S) == IF i <= Len(s) /\ s[i] \in S THEN RunEnd(s, i + 1, S) ELSE i - 1

\* (\d+)\s*k?bps, case-insensitive, matches with its digits starting at i
BitrateMatchAt(s, i) ==
    /\ s[i] \in Digits
    /\ LET w == RunEnd(s, RunEnd(s, i, Digits) + 1, Whitespace) + 1
       IN \/ w <= Len(s) /\ LowerTok(s[w]) = "bps"
          \/ w + 1 <= Len(s) /\ LowerTok(s[w]) = "k" /\ LowerTok(s[w + 1]) = "bps"

\* 'mp3' in text, 'aac' in text: the tokens that spell them
MentionsMp3(s) == \E i \in 1..Len(s) : s[i] \in {"mp3", ".mp3"}
MentionsAac(s) == \E i \in 1..Len(s) : s[i] \in {"aac", ".aac"}

DefaultMp3Quality == 128
DefaultAacQuality == 96
LowestDefaultQuality == 64

parse_stream_quality(stream_text) ==
    IF \E i \in 1..Len(stream_text) : BitrateMatchAt(stream_text, i)
    THEN LET i == CHOOSE k \in 1..Len(stream_text) :
                     /\ BitrateMatchAt(stream_text, k)
                     /\ \A h \in 1..(k - 1) : ~BitrateMatchAt(stream_text, h)
         IN IntOf(SubSeq(stream_text, i, RunEnd(stream_text, i, Digits)))
    ELSE IF MentionsMp3(Lower(stream_text)) THEN DefaultMp3Quality
    ELSE IF MentionsAac(Lower(stream_text)) THEN DefaultAacQuality
    ELSE LowestDefaultQuality

(***************************************************************************)
(* FluxRadiosScraper.select_best_stream                                    *)
(***************************************************************************)
Mp3FormatScore == 1000
AacFormatScore == 500
OtherFormatScore == 100

stream_score(stream) ==
    LET quality == stream.bitrate
        url == Lower(stream.url)
        format_score ==
            IF Contains(url, <<".mp3">>) \/ MentionsMp3(Lower(stream.description))
            THEN Mp3FormatScore
            ELSE IF Contains(url, <<".aac">>) \/ MentionsAac(Lower(stream.description))
            THEN AacFormatScore
            ELSE OtherFormatScore
    IN format_score + quality

\* max(streams, key=stream_score): the first element of maximal key
MaxByScore(streams) ==
    LET i == CHOOSE k \in 1..Len(streams) :
                /\ \A j \in 1..Len(streams) : stream_score(streams[j]) <= stream_score(streams[k])
                /\ \A j \in 1..(k - 1) : stream_score(streams[j]) < stream_score(streams[k])
    IN streams[i]

\* the last element of maximal key
MaxByScoreLast(streams) ==
    LET i == CHOOSE k \in 1..Len(streams) :
                /\ \A j \in 1..Len(streams) : stream_score(streams[j]) <= stream_score(streams[k])
                /\ \A j \in (k + 1)..Len(streams) : stream_score(streams[j]) < stream_score(streams[k])
    IN streams[i]

\* select_best_stream with max() resolving ties to the last option
select_best_stream_last_max(streams) ==
    IF streams = <<>> THEN <<>>
    ELSE IF Len(streams) = 1 THEN <<streams[1]>>
    ELSE <<MaxByScoreLast(streams)>>

\* <<>> for None, <<stream>> for the selected stream
select_best_stream(streams) ==
    IF streams = <<>> THEN <<>>
    ELSE IF Len(streams) = 1 THEN <<streams[1]>>
    ELSE <<MaxByScore(streams)>>

(***************************************************************************)
(* FluxRadiosScraper.extract_radio_info: the stream candidates.  The       *)
(* regular expressions yield found_urls; a found URL is kept here with the *)
(* page text before and after its first occurrence (at most 100 characters *)
(* each side), in the order the set is iterated.                           *)
(***************************************************************************)
TrailingPunctuation == {".", ",", ";", ")"}
SkipWords == {"facebook", "twitter", "google", "blogger", "youtube"}

\* url.strip().rstrip('.,;)')
CleanUrl(match) == RStripSet(Strip(match), TrailingPunctuation)

\* any(skip in url.lower() for skip in [...])
IsSkipped(url) == \E i \in 1..Len(url) : LowerTok(url[i]) \in SkipWords

\* content_text[context_start:context_end]: the text around the occurrence
ContextOf(f) == f.before \o f.match \o f.after

StreamInfo(f) ==
    [url |-> CleanUrl(f.match),
     description |-> Strip(ContextOf(f)),
     bitrate |-> parse_stream_quality(ContextOf(f))]

RECURSIVE BuildStreams(_)
BuildStreams(found) ==
    IF found = <<>> THEN <<>>
    ELSE IF IsSkipped(CleanUrl(Head(found).match)) THEN BuildStreams(Tail(found))
    ELSE <<StreamInfo(Head(found))>> \o BuildStreams(Tail(found))

\* the regular-expression matches of the model's pages
FoundSamples ==
    { [match |-> m, before |-> c[1], after |-> c[2]] :
        m \in { <<"http://", "h", "/", "s", ".mp3">>,
                <<"http://", "h", "/", "s", ".AAC">>,
                <<"http://", "h", ":", "8", "0", "/", "live", ".">>,
                <<"https://", "Facebook", "/", "radio">> },
        c \in { <<<<>>, <<>>>>,
                <<<<"MP3", " ">>, <<>>>>,
                <<<<>>, <<" ", "6", "0", "0", "k", "bps">>>>,
                <<<<>>, <<" ", "3", "2", " ", "K", "BPS", "\n">>>> } }

(***************************************************************************)
(* select_best_stream on its own: every list of at most MaxStreams stream  *)
(* options that extract_radio_info can build.                              *)
(***************************************************************************)
InitSelect ==
    /\ pc = "call"
    /\ \E found \in SeqsUpTo(FoundSamples, MaxStreams) : args = BuildStreams(found)
    /\ ret = <<>>
    /\ PlaylistIdle
    /\ ScraperIdle

CallSelect ==
    /\ pc = "call"
    /\ ret' = <<select_best_stream(args)>>
    /\ pc' = "returned"
    /\ UNCHANGED args
    /\ UNCHANGED playlistVars
    /\ UNCHANGED scraperVars

SpecSelect == InitSelect /\ [][CallSelect]_vars

\* the score the specification gives an option: format bonus plus bitrate
MentionsFormat(stream, word, ext) ==
    \/ \E i \in 1..Len(stream.url) : LowerTok(stream.url[i]) = ext
    \/ \E i \in 1..Len(stream.description) : LowerTok(stream.description[i]) \in {word, ext}

FormatTier(stream) ==
    IF MentionsFormat(stream, "mp3", ".mp3") THEN 3
    ELSE IF MentionsFormat(stream, "aac", ".aac") THEN 2
    ELSE 1

FormatBonus(stream) ==
    CASE FormatTier(stream) = 3 -> 1000
      [] FormatTier(stream) = 2 -> 500
      [] FormatTier(stream) = 1 -> 100

OptionScore(stream) == FormatBonus(stream) + stream.bitrate

C5_FormatDominatesBitrate ==
    pc = "returned" /\ Len(args) >= 2 =>
        \A j \in 1..Len(args) :
            /\ FormatTier(args[j]) <= FormatTier(ret[1][1])
            /\ (FormatTier(args[j]) = FormatTier(ret[1][1])
                    => args[j].bitrate <= ret[1][1].bitrate)

(***************************************************************************)
(* FluxRadiosScraper.extract_radio_links                                   *)
(***************************************************************************)
base_url == <<"https://", "fluxradios.blogspot.com", "/">>

Schemes == {"http://", "https://"}

\* urllib.parse.urljoin(base_url, href)
urljoin(base, href) ==
    IF href = <<>> THEN base
    ELSE IF Head(href) \in Schemes THEN href
    ELSE IF Head(href) = "//" THEN <<base[1]>> \o Tail(href)
    ELSE IF Head(href) = "/" THEN <<base[1], base[2]>> \o href
    ELSE base \o href

\* the condition of the loop: both substrings occur in the raw href
IsRadioHref(href) ==
    /\ Contains(href, <<"flux-url-">>)
    /\ Contains(href, <<"fluxradios.blogspot.com">>)

SeqContains(q, x) == \E i \in 1..Len(q) : q[i] = x

\* the loop over soup.find_all('a', href=True)
RECURSIVE CollectLinks(_, _)
CollectLinks(hrefs, radio_links_so_far) ==
    IF hrefs = <<>> THEN radio_links_so_far
    ELSE LET href == Head(hrefs)
             full_url == urljoin(base_url, href)
         IN IF IsRadioHref(href) /\ ~SeqContains(radio_links_so_far, full_url)
            THEN CollectLinks(Tail(hrefs), Append(radio_links_so_far, full_url))
            ELSE CollectLinks(Tail(hrefs), radio_links_so_far)

\* the hrefs of the listing pages of the model
HrefSamples ==
    { <<"https://", "fluxradios.blogspot.com", "/", "flux-url-", "nrj", ".html">>,
      <<"https://", "fluxradios.blogspot.com", "/", "flux-url-", "rtl", "-", "2", ".html">>,
      <<"//", "fluxradios.blogspot.com", "/", "flux-url-", "nrj", ".html">>,
      <<"/", "flux-url-", "fip", ".html">>,
      <<"https://", "fluxradios.blogspot.com", "/", "about", ".html">>,
      <<"https://", "other.example", "/", "flux-url-", "x", "?ref=", "fluxradios.blogspot.com">> }

\* what get_page_content returns: ok is FALSE for None (an exception was
\* caught); hrefs, title, description, logo_url and found are what the
\* queries of the callers read from the parsed page
FetchFailed ==
    [ok |-> FALSE, hrefs |-> <<>>, title |-> <<>>, description |-> <<>>,
     logo_url |-> <<>>, found |-> <<>>]

ListingPages ==
    {FetchFailed} \cup
    { [ok |-> TRUE, hrefs |-> h, title |-> <<"Flux Radios">>, description |-> <<>>,
       logo_url |-> <<>>, found |-> <<>>] :
        h \in SeqsUpTo(HrefSamples, MaxAnchors) }

\* extract_radio_links, given what get_page_content(self.base_url) returned
extract_radio_links(soup) == IF ~soup.ok THEN <<>> ELSE CollectLinks(soup.hrefs, <<>>)

(***************************************************************************)
(* FluxRadiosScraper.extract_radio_info                                    *)
(***************************************************************************)
\* str(int): the decimal digits of a natural number
DigitTok(d) ==
    CASE d = 0 -> "0" [] d = 1 -> "1" [] d = 2 -> "2" [] d = 3 -> "3" [] d = 4 -> "4"
      [] d = 5 -> "5" [] d = 6 -> "6" [] d = 7 -> "7" [] d = 8 -> "8" [] d = 9 -> "9"

RECURSIVE StrOf(_)
StrOf(n) == IF n < 10 THEN <<DigitTok(n)>> ELSE Append(StrOf(n \div 10), DigitTok(n % 10))

\* str.title(), token by token
TitleTok(t) ==
    CASE t = "nrj" -> "Nrj" [] t = "rtl" -> "Rtl" [] t = "fip" -> "Fip" [] t = "x" -> "X"
      [] OTHER -> t

\* radio_url.split('/'): the parts between the slashes
RECURSIVE SplitParts(_, _)
SplitParts(url, part) ==
    IF url = <<>> THEN <<part>>
    ELSE IF Head(url) \in {"/", "//"} \cup Schemes
    THEN <<part>> \o SplitParts(Tail(url), <<>>)
    ELSE SplitParts(Tail(url), Append(part, Head(url)))

\* [part for part in url_parts if 'flux-url-' in part][0]
MarkedPart(url) ==
    LET url_parts == SplitParts(url, <<>>)
        i == CHOOSE k \in 1..Len(url_parts) :
                /\ Contains(url_parts[k], <<"flux-url-">>)
                /\ \A h \in 1..(k - 1) : ~Contains(url_parts[h], <<"flux-url-">>)
    IN url_parts[i]

\* name_part.replace('flux-url-', '').replace('.html', '').replace('-', ' ').title()
RECURSIVE NameOfPart(_)
NameOfPart(part) ==
    IF part = <<>> THEN <<>>
    ELSE IF Head(part) \in {"flux-url-", ".html"} THEN NameOfPart(Tail(part))
    ELSE IF Head(part) = "-" THEN <<" ">> \o NameOfPart(Tail(part))
    ELSE <<TitleTok(Head(part))>> \o NameOfPart(Tail(part))

\* radio_info once the page is fetched: <<>> for None, <<record>> otherwise.
\* stream_url is <<>> when the key is absent.
extract_radio_info(radio_url, soup) ==
    IF ~soup.ok THEN <<>>
    ELSE LET streams == BuildStreams(soup.found)
             best_stream == select_best_stream(streams)
         IN <<[page_url |-> radio_url,
               name |-> IF Contains(radio_url, <<"flux-url-">>)
                        THEN NameOfPart(MarkedPart(radio_url)) ELSE <<>>,
               title |-> soup.title,
               description |-> soup.description,
               logo_url |-> soup.logo_url,
               stream_url |-> IF best_stream # <<>> THEN best_stream[1].url ELSE <<>>,
               stream_quality |-> IF best_stream # <<>>
                                  THEN StrOf(best_stream[1].bitrate) \o <<"kbps">>
                                  ELSE <<>>,
               streams |-> IF best_stream # <<>> THEN streams ELSE <<>>]>>

\* the detail pages of the model
DetailPages ==
    {FetchFailed} \cup
    { [ok |-> TRUE, hrefs |-> <<>>, title |-> <<"Radio">>,
       description |-> <<"Live", " ", "radio">>, logo_url |-> <<>>, found |-> f] :
        f \in { <<>>,
                <<[match |-> <<"https://", "Facebook", "/", "radio">>,
                   before |-> <<>>, after |-> <<>>]>>,
                <<[match |-> <<"http://", "h", ":", "8", "0", "/", "live", ".">>,
                   before |-> <<>>, after |-> <<>>]>>,
                <<[match |-> <<"http://", "h", "/", "s", ".mp3">>,
                   before |-> <<>>, after |-> <<" ", "3", "2", " ", "K", "BPS", "\n">>],
                  [match |-> <<"http://", "h", "/", "s", ".AAC">>,
                   before |-> <<>>, after |-> <<" ", "6", "0", "0", "k", "bps">>]>> } }

(***************************************************************************)
(* FluxRadiosScraper.scrape_all_radios                                     *)
(***************************************************************************)
\* radio_links = self.extract_radio_links()
ExtractLinks ==
    /\ pc = "links"
    /\ \E soup \in ListingPages :
          /\ anchors' = soup.hrefs
          /\ radio_links' = extract_radio_links(soup)
    /\ ri' = 1
    /\ pc' = "scrape"
    /\ UNCHANGED <<radios_data, responses>>
    /\ UNCHANGED playlistVars
    /\ UNCHANGED callVars

\* the loop with a failed fetch ending the batch
ScrapeLinkAbortOnFailure ==
    /\ pc = "scrape"
    /\ ri <= Len(radio_links)
    /\ \E soup \in DetailPages :
          LET radio_info == extract_radio_info(radio_links[ri], soup)
          IN /\ radios_data' = IF radio_info # <<>> /\ radio_info[1].stream_url # <<>>
                               THEN Append(radios_data, radio_info[1])
                               ELSE radios_data
             /\ responses' = Append(responses, [url |-> radio_links[ri], soup |-> soup])
             /\ ri' = IF radio_info = <<>> THEN Len(radio_links) + 1 ELSE ri + 1
    /\ UNCHANGED <<pc, anchors, radio_links>>
    /\ UNCHANGED playlistVars
    /\ UNCHANGED callVars

\* the loop keeping every page that was fetched, stream or not
ScrapeLinkKeepsAll ==
    /\ pc = "scrape"
    /\ ri <= Len(radio_links)
    /\ \E soup \in DetailPages :
          LET radio_info == extract_radio_info(radio_links[ri], soup)
          IN /\ radios_data' = IF radio_info # <<>>
                               THEN Append(radios_data, radio_info[1])
                               ELSE radios_data
             /\ responses' = Append(responses, [url |-> radio_links[ri], soup |-> soup])
    /\ ri' = ri + 1
    /\ UNCHANGED <<pc, anchors, radio_links>>
    /\ UNCHANGED playlistVars
    /\ UNCHANGED callVars

\* one iteration of the loop over radio_links
ScrapeLink ==
    /\ pc = "scrape"
    /\ ri <= Len(radio_links)
    /\ \E soup \in DetailPages :
          LET radio_info == extract_radio_info(radio_links[ri], soup)
          IN /\ radios_data' = IF radio_info # <<>> /\ radio_info[1].stream_url # <<>>
                               THEN Append(radios_data, radio_info[1])
                               ELSE radios_data
             /\ responses' = Append(responses, [url |-> radio_links[ri], soup |-> soup])
    /\ ri' = ri + 1
    /\ UNCHANGED <<pc, anchors, radio_links>>
    /\ UNCHANGED playlistVars
    /\ UNCHANGED callVars

\* return self.radios_data
ScrapeReturn ==
    /\ pc = "scrape"
    /\ ri > Len(radio_links)
    /\ pc' = "scraped"
    /\ UNCHANGED scraperVars
    /\ UNCHANGED playlistVars
    /\ UNCHANGED callVars

InitScraper ==
    /\ pc = "links"
    /\ ScraperIdle
    /\ PlaylistIdle
    /\ CallIdle

NextScraper == ExtractLinks \/ ScrapeLink \/ ScrapeReturn

SpecScraper == InitScraper /\ [][NextScraper]_vars

\* either program, from its start
Init == InitPlaylist \/ InitScraper

Next == NextPlaylist \/ NextScraper

Spec == Init /\ [][Next]_vars

(***************************************************************************)
(* Claims about the directory pipeline.                                    *)
(***************************************************************************)
ExpectedHost == "fluxradios.blogspot.com"

HasMarker(href) == \E i \in 1..Len(href) : href[i] = "flux-url-"

\* the resolved URL is on the expected host
BelongsToHost(full_url) ==
    /\ Len(full_url) >= 2
    /\ full_url[1] \in Schemes
    /\ full_url[2] = ExpectedHost

\* the resolved URLs of the detail-page hrefs, each at its first occurrence
RECURSIVE DetailLinks(_, _)
DetailLinks(hrefs, seen) ==
    IF hrefs = <<>> THEN seen
    ELSE LET full_url == urljoin(base_url, Head(hrefs))
         IN IF /\ HasMarker(Head(hrefs))
               /\ BelongsToHost(full_url)
               /\ \A i \in 1..Len(seen) : seen[i] # full_url
            THEN DetailLinks(Tail(hrefs), Append(seen, full_url))
            ELSE DetailLinks(Tail(hrefs), seen)

\* C10: the links extracted from the listing page are, without duplicates and
\* in first-occurrence order, the resolved URLs of the hrefs that carry the
\* marker and belong to the expected host, relative hrefs included.
C10_LinksAreDetailPagesOfHost ==
    pc \in {"scrape", "scraped"} =>
        /\ \A i \in 1..Len(radio_links) : \A j \in 1..Len(radio_links) :
              radio_links[i] = radio_links[j] => i = j
        /\ radio_links = DetailLinks(anchors, <<>>)

\* the page answers with at least one stream URL that is not on the block-list
HasSelectableStream(soup) ==
    /\ soup.ok
    /\ \E i \in 1..Len(soup.found) :
          \A j \in 1..Len(soup.found[i].match) :
              LowerTok(soup.found[i].match[j]) \notin SkipWords

\* the URLs of the responses that carry a selectable stream, in order
RECURSIVE UrlsWithStream(_)
UrlsWithStream(resp) ==
    IF resp = <<>> THEN <<>>
    ELSE IF HasSelectableStream(Head(resp).soup)
    THEN <<Head(resp).url>> \o UrlsWithStream(Tail(resp))
    ELSE UrlsWithStream(Tail(resp))

\* C6: when scrape_all_radios returns, every link was fetched once, in
\* discovery order, and the result holds exactly the links whose page
\* yielded a stream, in that order; a failed fetch drops only its link.
C6_ResultIsSubsequenceOfLinks ==
    pc = "scraped" =>
        /\ Len(responses) = Len(radio_links)
        /\ \A k \in 1..Len(radio_links) : responses[k].url = radio_links[k]
        /\ [k \in 1..Len(radios_data) |-> radios_data[k].page_url] = UrlsWithStream(responses)

\* C6 witness: a failed fetch, then a page without a stream, then a page
\* with one: the batch went on and kept the third link only
C6_Witness ==
    /\ pc = "scraped"
    /\ Len(radio_links) = 3
    /\ ~responses[1].soup.ok
    /\ responses[2].soup.ok /\ ~HasSelectableStream(responses[2].soup)
    /\ HasSelectableStream(responses[3].soup)
    /\ Len(radios_data) = 1
    /\ radios_data[1].page_url = radio_links[3]

\* C7: every record of stations has a stream URL and a logo, and every
\* record of radios_data has a stream URL, at every point of either run.
C7_RecordsHaveUrl ==
    /\ \A k \in 1..Len(stations) : stations[k].url # <<>> /\ stations[k].logo # <<>>
    /\ \A k \in 1..Len(radios_data) : radios_data[k].stream_url # <<>>

\* C7 witness: parse_m3u is still reading and has already appended a station
\* whose logo attribute was whitespace
C7_Witness ==
    /\ pc = "parse"
    /\ li <= Len(lines)
    /\ Len(stations) = 1
    /\ stations[1].name = <<"C">>
    /\ stations[1].logo = country_flags("FR")
    /\ stations[1].url = <<"http://", "u2">>

====
